---- MODULE Spec2Model ----
(***************************************************************************)
(* Counter-based remote attestation between a Verifier (verifier.c) and a  *)
(* Prover (prover.c), both linked against the key store of microvisor.c.   *)
(*                                                                         *)
(* Byte strings are sequences of integers.  A 32-byte value read from a    *)
(* file, from /dev/urandom or off the line is Raw(n); the output of        *)
(* HMAC-SHA256 is the term <<1>> \o key \o input, so two MACs are equal    *)
(* exactly when their keys and inputs are (no collisions, no forgery).     *)
(* A uint32_t is the pair <<high half, low half>> of 16-bit halves, with   *)
(* the arithmetic of the C type (increment wraps at 2^32).                 *)
(***************************************************************************)
EXTENDS Integers, Sequences, FiniteSets, TLC

\* ---------------------------------------------------------------- bounds
\* Rounds the Verifier starts in one run of the model.
MaxRounds == 3
\* Distinct values /dev/urandom (or the line) can deliver as a nonce.
NumNonces == 2
\* Consecutive read()/write() calls that transfer nothing, after which the
\* model stops counting them.
MaxSpins == 2

\* ------------------------------------------------------ sizes in bytes
COUNTER_SIZE == 4

OUTPUT_SIZE == 32

\* ------------------------------------------------------------ uint32_t
Half == 2^16

Roles == {"V", "P"}

Zero32 == <<0, 0>>

Max32 == <<Half - 1, Half - 1>>

\* c + 1 on a uint32_t (verifier.c: C_V++).
Inc32(c) ==
    IF c[2] + 1 < Half THEN <<c[1], c[2] + 1>>
    ELSE IF c[1] + 1 < Half THEN <<c[1] + 1, 0>>
    ELSE Zero32

\* a >= b on uint32_t.
Geq32(a, b) == a[1] > b[1] \/ (a[1] = b[1] /\ a[2] >= b[2])

Gt32(a, b) == Geq32(a, b) /\ a # b

\* The number of a round as a mathematical integer (no wrap): the high
\* part may reach 2^16, which no uint32_t can hold.
IncNat(k) == IF k[2] + 1 < Half THEN <<k[1], k[2] + 1>> ELSE <<k[1] + 1, 0>>

\* ------------------------------------------------------- byte strings
Raw(n) == <<0, n>>

\* Static storage and `= {0}` initialisers: all bytes zero.
Zeros == Raw(0)

\* HMAC(EVP_sha256(), key, KEY_SIZE, input, ...).
HMAC(key, input) == <<1>> \o key \o input

SOFTWARE_CODE == <<17>>

\* Contents of kauth.key and kattest.key as provisioned to both devices.
KauthFile == Raw(1)

KattestFile == Raw(2)

Nonces == {Raw(2 + i) : i \in 1..NumNonces}

VARIABLES
    keyfile,     \* keyfile[role][name]: fopen of that role's key file succeeds
    Kauth,       \* Kauth[role]: the role's copy of the authentication key
    Kattest,     \* Kattest[role]: the role's copy of the attestation key
    C_V,         \* the Verifier's counter
    C_P,         \* the Prover's counter
    vpc,         \* Verifier: "start", "loop", "await", "exit"
    ppc,         \* Prover: "start", "loop", "exit"
    verdict,     \* what the Verifier printed for its last finished round
    toProver,    \* Requests written on the line and not yet read
    toVerifier,  \* Reports written on the line and not yet read
    rounds,      \* rounds the Verifier has started in this run
    roundNo,     \* number of the Verifier's current round, counted from boot
    last,        \* the Prover's last round: what it read, C_P before, what it wrote
    io,          \* one call of safe_uart_read / safe_uart_write
    wire         \* one message on the line, byte by byte, and its reader

vars == <<keyfile, Kauth, Kattest, C_V, C_P, vpc, ppc, verdict, toProver,
          toVerifier, rounds, roundNo, last, io, wire>>

\* ---------------------------------------------------------- microvisor.c
load_key_from_file(key, opened, contents) == IF opened THEN contents ELSE key

get_secure_key(role, key_type) ==
    IF key_type = 0 THEN Kauth[role] ELSE Kattest[role]

compute_valid_software_state(role) == HMAC(get_secure_key(role, 1), SOFTWARE_CODE)

\* initialize_keys() run by `role`; the other role's keys are untouched.
initialize_keys(role) ==
    /\ Kauth' = [Kauth EXCEPT ![role] =
                    load_key_from_file(Kauth[role], keyfile[role].kauth, KauthFile)]
    /\ Kattest' = [Kattest EXCEPT ![role] =
                    load_key_from_file(Kattest[role], keyfile[role].kattest, KattestFile)]

\* ------------------------------------------------------------- messages
FailReport == [flag |-> 0, proof |-> Zeros]

Request(c, d, n, p) == [Counter |-> c, digest |-> d, nonce |-> n, proof |-> p]

\* ------------------------------------------------------------ verifier.c
compute_verifier_hmac(temp_CV, nonce) ==
    HMAC(get_secure_key("V", 0),
         temp_CV \o compute_valid_software_state("V") \o nonce)

\* -------------------------------------------------------------- prover.c
compute_prover_hmac(cv, nonce) ==
    HMAC(get_secure_key("P", 0),
         cv \o compute_valid_software_state("P") \o nonce)

\* (Variant: the freshness check written C_P > C_V.)
StaleStrict(cp, cv) == Gt32(cp, cv)

\* The freshness check of the Prover's loop (C_P >= C_V): TRUE when the
\* Request is rejected as stale.
Stale(cp, cv) == Geq32(cp, cv)

\* (Variant: the expected proof computed over the digest carried by the Request.)
ProofMatchesReceivedDigest(req) ==
    req.proof = HMAC(get_secure_key("P", 0), req.Counter \o req.digest \o req.nonce)

\* (Variant: the expected proof not bound to the nonce of the Request.)
ProofMatchesAnyNonce(req) ==
    \E n \in Nonces : req.proof = compute_prover_hmac(req.Counter, n)

\* memcmp(received_hmac, expected_hmac, OUTPUT_SIZE) == 0
ProofMatches(req) == req.proof = compute_prover_hmac(req.Counter, req.nonce)

\* The Report written when the proof matched, C_P already being newcp.
SuccessReport(newcp, nonce) ==
    [flag |-> 1, proof |-> compute_prover_hmac(newcp, nonce)]

\* (Variant: C_P = C_V assigned before the proof is compared.)
HandleRequestEarlyUpdate(cp, req) ==
    IF Stale(cp, req.Counter)
    THEN [C_P |-> cp, sent |-> <<FailReport>>]
    ELSE IF ProofMatches(req)
    THEN [C_P |-> req.Counter, sent |-> <<SuccessReport(req.Counter, req.nonce)>>]
    ELSE [C_P |-> req.Counter, sent |-> <<>>]

\* (Variant: the Report's proof computed before C_P = C_V is assigned.)
HandleRequestProofFirst(cp, req) ==
    IF Stale(cp, req.Counter)
    THEN [C_P |-> cp, sent |-> <<FailReport>>]
    ELSE IF ProofMatches(req)
    THEN [C_P |-> req.Counter, sent |-> <<SuccessReport(cp, req.nonce)>>]
    ELSE [C_P |-> cp, sent |-> <<>>]

\* (Variant: the success Report written without C_P = C_V being assigned.)
HandleRequestKeepCounter(cp, req) ==
    IF Stale(cp, req.Counter)
    THEN [C_P |-> cp, sent |-> <<FailReport>>]
    ELSE IF ProofMatches(req)
    THEN [C_P |-> cp, sent |-> <<SuccessReport(req.Counter, req.nonce)>>]
    ELSE [C_P |-> cp, sent |-> <<>>]

\* One iteration of the Prover's loop on the Request req with C_P = cp: the
\* new C_P and the Reports written on the line (none, or one).  On a match
\* C_P is assigned first and the Report's proof is computed from C_P.
HandleRequest(cp, req) ==
    IF Stale(cp, req.Counter)
    THEN [C_P |-> cp, sent |-> <<FailReport>>]
    ELSE IF ProofMatches(req)
    THEN LET newcp == req.Counter
         IN [C_P |-> newcp, sent |-> <<SuccessReport(newcp, req.nonce)>>]
    ELSE [C_P |-> cp, sent |-> <<>>]

\* ------------------------------------------------------ what the line carries
\* Counters a Request read off the line may carry.
CounterInputs == {Zero32, <<0, 1>>, <<0, 2>>, Max32}

\* Digest bytes: zeros, or the digest of the provisioned Kattest.
DigestInputs == {Zeros, HMAC(KattestFile, SOFTWARE_CODE)}

\* The pairs <<Kauth, Kattest>> a maker of Requests may hold: no key at all,
\* the provisioned keys, or whatever the Prover holds.
KeyPairs ==
    {<<Zeros, Zeros>>, <<KauthFile, KattestFile>>, <<Kauth["P"], Kattest["P"]>>}

\* Proof bytes: zeros, or the MAC over some counter and nonce made with such a
\* pair of keys (the proof of this Request, or of another one).
ProofInputs ==
    {Zeros} \cup
    {HMAC(k[1], c \o HMAC(k[2], SOFTWARE_CODE) \o n) :
        k \in KeyPairs, c \in CounterInputs, n \in Nonces}

Requests ==
    {Request(c, d, n, p) :
        c \in CounterInputs, d \in DigestInputs, n \in Nonces, p \in ProofInputs}

\* ------------------------------------------------------- bytes on the line
\* Byte i of a 32-byte value v.
Bytes32(v) == [i \in 1..OUTPUT_SIZE |-> v \o <<i>>]

\* The four bytes of a uint32_t in memory, lowest first (memcpy / a cast of
\* &C_V on the host both programs run on).
CounterBytes(c) ==
    << <<c[2] % 256>>, <<c[2] \div 256>>, <<c[1] % 256>>, <<c[1] \div 256>> >>

\* The uint32_t whose four bytes in memory are b.
CounterValue(b) ==
    IF Len(b) = COUNTER_SIZE
    THEN <<b[3][1] + 256 * b[4][1], b[1][1] + 256 * b[2][1]>>
    ELSE <<-1, -1>>

\* The 32-byte value whose bytes are b (bytes that are not the 32 bytes of one
\* value, in order, make some other value).
Value32(b) ==
    IF b = <<>> THEN <<2>>
    ELSE LET v == SubSeq(b[1], 1, Len(b[1]) - 1)
         IN IF b = Bytes32(v) THEN v ELSE <<2>> \o v

\* The Verifier's four writes: counter, digest, nonce, proof.
EncodeRequest(m) ==
    CounterBytes(m.Counter) \o Bytes32(m.digest) \o Bytes32(m.nonce)
        \o Bytes32(m.proof)

\* The Prover's one write of report[1 + OUTPUT_SIZE].
EncodeReport(r) == << <<r.flag>> >> \o Bytes32(r.proof)

\* The sizes of the reads that take a message off the line, in order.
RequestLayout == <<COUNTER_SIZE, OUTPUT_SIZE, OUTPUT_SIZE, OUTPUT_SIZE>>

ReportLayout == <<1 + OUTPUT_SIZE>>

Layout(kind) == IF kind = "request" THEN RequestLayout ELSE ReportLayout

\* C_V, valid_state, nonce and received_hmac as the Prover's four reads left them.
DecodeRequest(fields) ==
    Request(CounterValue(fields[1]), Value32(fields[2]), Value32(fields[3]),
            Value32(fields[4]))

\* report[0] and report + 1 as the Verifier's read left them.
DecodeReport(fields) ==
    [flag |-> fields[1][1][1],
     proof |-> Value32(SubSeq(fields[1], 2, 1 + OUTPUT_SIZE))]

\* (Variant: the read loop left after the first read() that returned bytes.)
ReadCompleteAfterFirst(received, size) == received > 0

\* The exit test of safe_uart_read's loop: !(received < size).
ReadComplete(received, size) == ~(received < size)

\* The size-byte buffer a read was given, after received bytes were stored at
\* its start (the rest of it is whatever it held).
Buffer(received, size) ==
    received \o [i \in 1..(size - Len(received)) |-> <<-1>>]

\* memcmp(a, b, n) == 0.
MemcmpEqual(a, b, n) == \A i \in 1..n : a[i] = b[i]

\* The numbers of byte pairs memcmp(a, b, n) may examine: all n when the
\* buffers are equal; otherwise it may stop at the first pair that differs, and
\* nothing makes it go further (how far it goes is the C library's choice).
MemcmpSteps(a, b, n) ==
    IF MemcmpEqual(a, b, n) THEN {n}
    ELSE LET first == CHOOSE i \in 1..n :
                          a[i] # b[i] /\ \A j \in 1..(i - 1) : a[j] = b[j]
         IN first..n

\* The state 2^32 - 2 successful rounds after a startup that found every key
\* file: both roles in their loops, both counters at 2^32 - 2.
Late == <<Half - 1, Half - 2>>

\* Counters of the messages followed byte by byte.
WireCounters == CounterInputs \cup {Late}

\* The Requests the Verifier writes.
WireRequests ==
    {Request(c, compute_valid_software_state("V"), n, compute_verifier_hmac(c, n)) :
        c \in WireCounters, n \in Nonces}

\* The Reports the Prover writes.
WireReports ==
    {FailReport} \cup {SuccessReport(c, n) : c \in WireCounters, n \in Nonces}

NoCompare == [equal |-> FALSE, steps |-> 0]

\* Nothing on the line.
WireIdle ==
    [pc |-> "idle", kind |-> "none", sent |-> FailReport, line |-> <<>>,
     fields |-> <<>>, cur |-> <<>>, partial |-> FALSE, flipped |-> 0,
     got |-> FailReport, proofBytes |-> <<>>, cmp |-> NoCompare]

\* A byte with one of its bits flipped.
Flip(cell) == [cell EXCEPT ![Len(cell)] = -cell[Len(cell)]]

\* A role writes one whole message (all its safe_uart_write calls).
WireWrite ==
    /\ wire.pc = "idle"
    /\ \/ \E m \in WireRequests :
             wire' = [WireIdle EXCEPT !.pc = "reading", !.kind = "request",
                                      !.sent = m, !.line = EncodeRequest(m)]
       \/ \E r \in WireReports :
             wire' = [WireIdle EXCEPT !.pc = "reading", !.kind = "report",
                                      !.sent = r, !.line = EncodeReport(r)]
    /\ UNCHANGED <<keyfile, Kauth, Kattest, C_V, C_P, vpc, ppc, verdict,
                   toProver, toVerifier, rounds, roundNo, last, io>>

\* Byte j of the proof of the Request on the line is altered in transit.
WireFlip ==
    /\ wire.pc = "reading"
    /\ wire.kind = "request"
    /\ wire.flipped = 0
    /\ wire.fields = <<>> /\ wire.cur = <<>>
    /\ \E j \in 1..OUTPUT_SIZE :
          LET at == COUNTER_SIZE + 2 * OUTPUT_SIZE + j
          IN wire' = [wire EXCEPT !.flipped = j,
                                  !.line[at] = Flip(wire.line[at])]
    /\ UNCHANGED <<keyfile, Kauth, Kattest, C_V, C_P, vpc, ppc, verdict,
                   toProver, toVerifier, rounds, roundNo, last, io>>

\* One iteration of the loop of the reader's current safe_uart_read: read()
\* returns n of the bytes still asked for; the call returns when the exit test
\* holds, and the next field's read starts.
WireRead ==
    /\ wire.pc = "reading"
    /\ Len(wire.fields) < Len(Layout(wire.kind))
    /\ LET size == Layout(wire.kind)[Len(wire.fields) + 1]
           room == size - Len(wire.cur)
       IN \E n \in 1..room :
             LET cur == wire.cur \o SubSeq(wire.line, 1, n)
                 rest == SubSeq(wire.line, n + 1, Len(wire.line))
             IN /\ n <= Len(wire.line)
                /\ wire' =
                     IF ReadComplete(Len(cur), size)
                     THEN [wire EXCEPT !.line = rest, !.cur = <<>>,
                                       !.fields = Append(wire.fields, Buffer(cur, size)),
                                       !.partial = wire.partial \/ n < room]
                     ELSE [wire EXCEPT !.line = rest, !.cur = cur,
                                       !.partial = TRUE]
    /\ UNCHANGED <<keyfile, Kauth, Kattest, C_V, C_P, vpc, ppc, verdict,
                   toProver, toVerifier, rounds, roundNo, last, io>>

\* All the reads have returned: the reader uses what they left.  The Prover
\* computes the proof it expects and compares the received one with it.
WireInterpret ==
    /\ wire.pc = "reading"
    /\ Len(wire.fields) = Len(Layout(wire.kind))
    /\ IF wire.kind = "request"
       THEN LET m == DecodeRequest(wire.fields)
                expected == Bytes32(compute_prover_hmac(m.Counter, m.nonce))
            IN \E k \in MemcmpSteps(wire.fields[4], expected, OUTPUT_SIZE) :
                  wire' = [wire EXCEPT
                             !.pc = "done", !.got = m,
                             !.proofBytes = wire.fields[4],
                             !.cmp = [equal |-> MemcmpEqual(wire.fields[4], expected,
                                                            OUTPUT_SIZE),
                                      steps |-> k]]
       ELSE wire' = [wire EXCEPT !.pc = "done", !.got = DecodeReport(wire.fields)]
    /\ UNCHANGED <<keyfile, Kauth, Kattest, C_V, C_P, vpc, ppc, verdict,
                   toProver, toVerifier, rounds, roundNo, last, io>>

\* The reader goes on; the line is free for the next message.
WireNext ==
    /\ wire.pc = "done"
    /\ wire' = WireIdle
    /\ UNCHANGED <<keyfile, Kauth, Kattest, C_V, C_P, vpc, ppc, verdict,
                   toProver, toVerifier, rounds, roundNo, last, io>>

\* -------------------------------------------------------------- initial states
NoRound ==
    [done |-> FALSE, Counter |-> Zero32, digest |-> Zeros, nonce |-> Zeros,
     proof |-> Zeros, before |-> Zero32, sent |-> <<>>]

\* No transfer in progress on an open line.
IoIdle == [op |-> "none", size |-> 0, count |-> 0, open |-> TRUE, dead |-> 0,
           pc |-> "idle"]

KeyFiles == [kauth : BOOLEAN, kattest : BOOLEAN]

\* Both processes just started: counters and keys are zero-initialised statics.
InitFresh ==
    /\ keyfile \in [Roles -> KeyFiles]
    /\ Kauth = [r \in Roles |-> Zeros]
    /\ Kattest = [r \in Roles |-> Zeros]
    /\ C_V = Zero32 /\ C_P = Zero32
    /\ vpc = "start" /\ ppc = "start"
    /\ roundNo = Zero32

InitLate ==
    /\ keyfile = [r \in Roles |-> [kauth |-> TRUE, kattest |-> TRUE]]
    /\ Kauth = [r \in Roles |-> load_key_from_file(Zeros, keyfile[r].kauth, KauthFile)]
    /\ Kattest = [r \in Roles |->
                    load_key_from_file(Zeros, keyfile[r].kattest, KattestFile)]
    /\ C_V = Late /\ C_P = Late
    /\ vpc = "loop" /\ ppc = "loop"
    /\ roundNo = Late

Init ==
    /\ InitFresh \/ InitLate
    /\ verdict = "none"
    /\ toProver = <<>> /\ toVerifier = <<>>
    /\ rounds = 0
    /\ last = NoRound
    /\ io = IoIdle
    /\ wire = WireIdle

\* ------------------------------------------------------------------- startup
\* main() up to the loop: initialize_keys(), then open_uart(), whose failure
\* ends the process.  The line holds no data when it is opened.
Startup(role) ==
    /\ initialize_keys(role)
    /\ UNCHANGED <<keyfile, C_V, C_P, verdict, toProver, toVerifier, rounds,
                   roundNo, last, io, wire>>

VerifierStartup ==
    /\ vpc = "start"
    /\ Startup("V")
    /\ vpc' \in {"loop", "exit"}
    /\ UNCHANGED ppc

ProverStartup ==
    /\ ppc = "start"
    /\ Startup("P")
    /\ ppc' \in {"loop", "exit"}
    /\ UNCHANGED vpc

\* ------------------------------------------------------------ Verifier rounds
\* (Variant: the next Request written without waiting for the Report.)
VerifierSendPipelined ==
    /\ vpc \in {"loop", "await"}
    /\ rounds < MaxRounds
    /\ \E nonce \in Nonces :
          LET cv == Inc32(C_V)
              hmac == compute_verifier_hmac(cv, nonce)
          IN /\ C_V' = cv
             /\ toProver' = Append(toProver,
                    Request(cv, compute_valid_software_state("V"), nonce, hmac))
    /\ vpc' = "await"
    /\ rounds' = rounds + 1
    /\ roundNo' = IncNat(roundNo)
    /\ UNCHANGED <<keyfile, Kauth, Kattest, C_P, ppc, verdict, toVerifier, last, io, wire>>

\* (Variant: the increment made on a copy, C_V itself left as it was.)
VerifierSendCopy ==
    /\ vpc = "loop"
    /\ rounds < MaxRounds
    /\ \E nonce \in Nonces :
          LET cv == Inc32(C_V)
              hmac == compute_verifier_hmac(cv, nonce)
          IN /\ C_V' = C_V
             /\ toProver' = Append(toProver,
                    Request(cv, compute_valid_software_state("V"), nonce, hmac))
    /\ vpc' = "await"
    /\ rounds' = rounds + 1
    /\ roundNo' = IncNat(roundNo)
    /\ UNCHANGED <<keyfile, Kauth, Kattest, C_P, ppc, verdict, toVerifier, last, io, wire>>

\* verifier.c main loop up to the blocking read: nonce, C_V++, HMAC, four writes.
VerifierSend ==
    /\ vpc = "loop"
    /\ rounds < MaxRounds
    /\ \E nonce \in Nonces :
          LET cv == Inc32(C_V)
              hmac == compute_verifier_hmac(cv, nonce)
          IN /\ C_V' = cv
             /\ toProver' = Append(toProver,
                    Request(cv, compute_valid_software_state("V"), nonce, hmac))
    /\ vpc' = "await"
    /\ rounds' = rounds + 1
    /\ roundNo' = IncNat(roundNo)
    /\ UNCHANGED <<keyfile, Kauth, Kattest, C_P, ppc, verdict, toVerifier, last, io, wire>>

\* The Verifier's verdict on a Report.
Judge(report) == IF report.flag = 1 THEN "SUCCESSFUL" ELSE "FAILED"

\* verifier.c main loop from the blocking read of the Report to the sleep.
VerifierRecv ==
    /\ vpc = "await"
    /\ toVerifier # <<>>
    /\ verdict' = Judge(Head(toVerifier))
    /\ toVerifier' = Tail(toVerifier)
    /\ vpc' = "loop"
    /\ UNCHANGED <<keyfile, Kauth, Kattest, C_V, C_P, ppc, toProver, rounds,
                   roundNo, last, io, wire>>

\* -------------------------------------------------------------- Prover rounds
\* One iteration of the Prover's loop having read req off the line.
ProverRound(req) ==
    LET r == HandleRequest(C_P, req)
    IN /\ C_P' = r.C_P
       /\ toVerifier' = toVerifier \o r.sent
       /\ last' = [done |-> TRUE, Counter |-> req.Counter, digest |-> req.digest,
                   nonce |-> req.nonce, proof |-> req.proof, before |-> C_P,
                   sent |-> r.sent]
       /\ UNCHANGED <<keyfile, Kauth, Kattest, C_V, vpc, ppc, verdict, rounds,
                      roundNo, io, wire>>

\* The Request is the next one on the line.
ProverHandle ==
    /\ ppc = "loop"
    /\ toProver # <<>>
    /\ ProverRound(Head(toProver))
    /\ toProver' = Tail(toProver)

\* ------------------------------------------------------------ the environment
\* Someone else on the line writes 100 bytes while it is idle (a replayed,
\* altered or made-up Request) and the Prover reads them as a Request.
ProverHandleForeign ==
    /\ ppc = "loop"
    /\ toProver = <<>>
    /\ toVerifier = <<>>
    /\ \E req \in Requests : ProverRound(req)
    /\ UNCHANGED toProver

\* The Requests that differ from m in exactly one field.
Altered(m) ==
    ( {[m EXCEPT !.Counter = c] : c \in CounterInputs}
      \cup {[m EXCEPT !.digest = d] : d \in DigestInputs}
      \cup {[m EXCEPT !.nonce = n] : n \in Nonces}
      \cup {[m EXCEPT !.proof = p] : p \in ProofInputs} ) \ {m}

\* The next Request on the line was altered in transit, and the Prover reads
\* the altered bytes.
ProverHandleAltered ==
    /\ ppc = "loop"
    /\ toProver # <<>>
    /\ \E t \in Altered(Head(toProver)) : ProverRound(t)
    /\ toProver' = Tail(toProver)

\* A Report on the line is taken off it by someone other than the Verifier.
LineTakeReport ==
    /\ toVerifier # <<>>
    /\ toVerifier' = Tail(toVerifier)
    /\ UNCHANGED <<keyfile, Kauth, Kattest, C_V, C_P, vpc, ppc, verdict,
                   toProver, rounds, roundNo, last, io, wire>>

\* ------------------------------------------------- safe_uart_read / _write
\* The byte counts the two programs pass to safe_uart_read and safe_uart_write.
TransferSizes == {COUNTER_SIZE, OUTPUT_SIZE, 1 + OUTPUT_SIZE}

\* What one read() or write() of up to `room` bytes can return: a positive byte
\* count on an open line, or nothing (0 or -1); only nothing once it is closed.
SyscallResults(open, room) == IF open THEN -1..room ELSE {-1, 0}

\* A role calls safe_uart_read or safe_uart_write.
IoCall ==
    /\ io.pc = "idle"
    /\ \E op \in {"read", "write"}, size \in TransferSizes :
          io' = [io EXCEPT !.op = op, !.size = size, !.count = 0, !.dead = 0,
                           !.pc = "loop"]
    /\ UNCHANGED <<keyfile, Kauth, Kattest, C_V, C_P, vpc, ppc, verdict,
                   toProver, toVerifier, rounds, roundNo, last, wire>>

\* One evaluation of `while (count < size)` and, when it holds, of the body.
IoIterate(op) ==
    /\ io.pc = "loop"
    /\ io.op = op
    /\ IF io.count < io.size
       THEN \E n \in SyscallResults(io.open, io.size - io.count) :
               io' = [io EXCEPT
                        !.count = IF n > 0 THEN io.count + n ELSE io.count,
                        !.dead = IF io.open THEN 0
                                 ELSE IF io.dead < MaxSpins THEN io.dead + 1
                                 ELSE io.dead]
       ELSE io' = [io EXCEPT !.pc = "returned"]
    /\ UNCHANGED <<keyfile, Kauth, Kattest, C_V, C_P, vpc, ppc, verdict,
                   toProver, toVerifier, rounds, roundNo, last, wire>>

safe_uart_read == IoIterate("read")

safe_uart_write == IoIterate("write")

\* The caller goes on after the call returned.
IoReturn ==
    /\ io.pc = "returned"
    /\ io' = [io EXCEPT !.pc = "idle", !.op = "none", !.size = 0, !.count = 0]
    /\ UNCHANGED <<keyfile, Kauth, Kattest, C_V, C_P, vpc, ppc, verdict,
                   toProver, toVerifier, rounds, roundNo, last, wire>>

\* The connection fails or is closed by the peer.
LineClose ==
    /\ io.open
    /\ io' = [io EXCEPT !.open = FALSE]
    /\ UNCHANGED <<keyfile, Kauth, Kattest, C_V, C_P, vpc, ppc, verdict,
                   toProver, toVerifier, rounds, roundNo, last, wire>>

\* ------------------------------------------------------------- specifications
NextReliable ==
    \/ VerifierStartup
    \/ ProverStartup
    \/ VerifierSend
    \/ VerifierRecv
    \/ ProverHandle

Next ==
    \/ NextReliable
    \/ ProverHandleAltered

NextProver ==
    \/ ProverStartup
    \/ ProverHandleForeign
    \/ LineTakeReport

\* Both roles, and a line on which Requests may be altered in transit.
Spec == Init /\ [][Next]_vars

\* The Prover alone, reading whatever 100 bytes the line delivers; the Verifier
\* never starts, so its key files do not matter.
InitProver == Init /\ keyfile["V"] = [kauth |-> TRUE, kattest |-> TRUE]

ProverSpec == InitProver /\ [][NextProver]_vars

NextIo ==
    \/ IoCall
    \/ safe_uart_read
    \/ safe_uart_write
    \/ IoReturn
    \/ LineClose

\* One role's calls of safe_uart_read and safe_uart_write on a line that may
\* close at any moment.
IoSpec == Init /\ [][NextIo]_vars

NextWire ==
    \/ WireWrite
    \/ WireFlip
    \/ WireRead
    \/ WireInterpret
    \/ WireNext

\* One message at a time followed byte by byte from its writer to its reader,
\* both roles holding the keys of a startup that found every key file (or not
\* having loaded any yet).
InitWire == Init /\ keyfile = [r \in Roles |-> [kauth |-> TRUE, kattest |-> TRUE]]

WireSpec == InitWire /\ [][NextWire]_vars

\* Only the two roles write to the line, and each runs whenever it can.
FairSpec ==
    /\ Init
    /\ [][NextReliable]_vars
    /\ WF_vars(VerifierStartup \/ VerifierSend \/ VerifierRecv)
    /\ WF_vars(ProverStartup \/ ProverHandle)

\* ======================================================================
\* Properties
\* ======================================================================
\* a <= b on uint32_t, written out on the halves.
Leq32(a, b) == a[1] < b[1] \/ (a[1] = b[1] /\ a[2] <= b[2])

Lt32(a, b) == a[1] < b[1] \/ (a[1] = b[1] /\ a[2] < b[2])

\* The Prover's last round ended with a Report whose flag is 1.
LastSucceeded == last.done /\ Len(last.sent) = 1 /\ last.sent[1].flag = 1

\* The proof the Prover computes for the Request of its last round.
LastExpectedProof ==
    HMAC(Kauth["P"],
         last.Counter \o HMAC(Kattest["P"], SOFTWARE_CODE) \o last.nonce)

\* The Prover's last round read a fresh counter with a proof that is not the
\* one it computes.
LastMismatched ==
    /\ last.done
    /\ Lt32(last.before, last.Counter)
    /\ last.proof # LastExpectedProof

\* C1: a Request whose Counter is at most C_P (a resend of an accepted Request
\* included) is answered by a Report with flag 0 and all-zero proof bytes, and
\* C_P after the round is C_P before it.
C1_ReplayRejected ==
    (last.done /\ Leq32(last.Counter, last.before)) =>
        /\ last.sent = <<[flag |-> 0, proof |-> Zeros]>>
        /\ C_P = last.before

\* The Prover accepted a Request with a counter above zero and then read one
\* with the same counter again, which it rejected.
C1_Witness ==
    /\ last.done
    /\ last.Counter = last.before
    /\ last.before # Zero32
    /\ last.proof = LastExpectedProof
    /\ last.sent = <<[flag |-> 0, proof |-> Zeros]>>
    /\ C_P = last.before

\* C2: a Request with a fresh counter whose proof differs from the one the
\* Prover computes is answered by a Report with flag 0, and C_P is unchanged.
C2_MismatchReported ==
    LastMismatched =>
        /\ Len(last.sent) = 1
        /\ last.sent[1].flag = 0
        /\ C_P = last.before

\* What the code does in that case: C_P is unchanged, and nothing is written.
C2_MismatchSilent ==
    LastMismatched => (last.sent = <<>> /\ C_P = last.before)

\* C3: a round that ends in success leaves C_P above its previous value and
\* equal to the accepted Counter; a round that ends in rejection leaves C_P as
\* it was; no other step changes C_P.
C3_Monotonic ==
    [][ /\ (C_P' # C_P) =>
              /\ last'.done /\ last'.before = C_P
              /\ Len(last'.sent) = 1 /\ last'.sent[1].flag = 1
        /\ (last' # last) =>
              /\ last'.done /\ last'.before = C_P
              /\ IF Len(last'.sent) = 1 /\ last'.sent[1].flag = 1
                 THEN Lt32(C_P, C_P') /\ C_P' = last'.Counter
                 ELSE C_P' = C_P ]_vars

\* A round succeeded from a counter that was not zero and raised C_P.
C3_Witness ==
    /\ LastSucceeded
    /\ last.before # Zero32
    /\ Lt32(last.before, C_P)
    /\ C_P = last.Counter

\* Both roles hold the same keys.
KeysAgree == Kauth["V"] = Kauth["P"] /\ Kattest["V"] = Kattest["P"]

\* C4: every round the Verifier starts ends (the Verifier gets its Report and
\* goes back to the top of its loop) when both roles run and only they write.
C4_RoundCompletes == (vpc = "await" /\ ppc = "loop") ~> (vpc = "loop")

\* C4, the same as a count: the Prover writes one Report in every round.
C4_OneReportPerRequest == last.done => Len(last.sent) = 1

\* C5: with equal keys on both sides the k-th round carries Counter = k, is
\* accepted and reported successful, and leaves C_P = C_V = k.
C5_HonestRoundsSucceed ==
    (KeysAgree /\ vpc = "loop" /\ rounds > 0) =>
        /\ C_V = roundNo
        /\ last.Counter = roundNo
        /\ verdict = "SUCCESSFUL"
        /\ C_P = roundNo

\* C5 for the rounds whose number a uint32_t can hold (k < 2^32).
C5_HonestRoundsBelowWrap ==
    (KeysAgree /\ vpc = "loop" /\ rounds > 0 /\ roundNo[1] < Half) =>
        /\ C_V = roundNo
        /\ last.Counter = roundNo
        /\ verdict = "SUCCESSFUL"
        /\ C_P = roundNo

\* C6: C_V never decreases: a round leaves it one above its previous value and
\* no Request carries a counter that wrapped to a smaller value.
C6_NoWrap == [][(C_V' # C_V) => (Lt32(C_V, C_V') /\ C_V' = IncNat(C_V))]_vars

\* C7: a role whose Kauth or Kattest could not be loaded never reaches its
\* loop, and no Request on the line was made with a key that was never loaded.
C7_KeyFailureFatal ==
    /\ vpc \in {"loop", "await"} => (keyfile["V"].kauth /\ keyfile["V"].kattest)
    /\ ppc = "loop" => (keyfile["P"].kauth /\ keyfile["P"].kattest)
    /\ \A i \in DOMAIN toProver :
          toProver[i].proof # HMAC(Zeros, toProver[i].Counter
                                   \o toProver[i].digest \o toProver[i].nonce)

\* C8: once a read() or write() has been made on a closed connection, the
\* call of safe_uart_read / safe_uart_write is over (it is not retried).
C8_ClosedLineEndsCall == (~io.open /\ io.dead > 0) => io.pc # "loop"

\* C8, first half: the call returns only with all the bytes transferred.
C8_ReturnsWhenComplete == io.pc = "returned" => io.count = io.size

\* C9: two Requests that differ only in the digest field get, from the same
\* Prover state, the same Report and the same C_P.
C9_DigestInert ==
    ppc = "loop" =>
        \A req \in Requests : \A d \in DigestInputs :
            HandleRequest(C_P, [req EXCEPT !.digest = d]) = HandleRequest(C_P, req)

\* The Prover accepted a Request whose digest field is not its own digest.
C9_Witness ==
    /\ LastSucceeded
    /\ last.digest # HMAC(Kattest["P"], SOFTWARE_CODE)
    /\ C_P = last.Counter

\* C10: a Report with flag 1 carries MAC(Kauth, C_P || own digest || nonce of
\* the Request answered), C_P being the accepted Counter; a Report with flag 0
\* carries all-zero proof bytes.
C10_ReportContents ==
    last.done =>
        \A i \in DOMAIN last.sent :
            LET report == last.sent[i]
            IN /\ report.flag \in {0, 1}
               /\ report.flag = 1 =>
                     /\ C_P = last.Counter
                     /\ report.proof =
                          HMAC(Kauth["P"],
                               C_P \o HMAC(Kattest["P"], SOFTWARE_CODE) \o last.nonce)
               /\ report.flag = 0 => report.proof = Zeros

\* A success Report was written in a round that moved C_P.
C10_Witness ==
    /\ LastSucceeded
    /\ last.before # last.Counter
    /\ last.sent[1].proof # Zeros

\* C13: the Prover accepts a Request (C_P becomes its Counter, the Report has
\* flag 1) exactly when the Counter is above C_P and the proof is the MAC under
\* Kauth of that Counter, the Prover's own digest and the received nonce.
C13_AcceptIff ==
    last.done =>
        /\ LastSucceeded <=>
              (Lt32(last.before, last.Counter) /\ last.proof = LastExpectedProof)
        /\ LastSucceeded => C_P = last.Counter
        /\ ~LastSucceeded => C_P = last.before

\* A freshly started Prover holding the provisioned Kauth accepted a Request
\* carrying the proof made over that Request's own counter and nonce.
C13_Witness ==
    /\ LastSucceeded
    /\ last.before = Zero32
    /\ Kauth["P"] = KauthFile
    /\ last.proof = LastExpectedProof
    /\ C_P = last.Counter

\* C14: at most one message is on the line, and only while the Verifier waits
\* for its Report: no second Request is written before the Report of the
\* previous one was read.
C14_OneExchange ==
    /\ Len(toProver) + Len(toVerifier) <= 1
    /\ vpc # "await" => (toProver = <<>> /\ toVerifier = <<>>)

\* The Verifier's second (or later) Request is on the line, alone.
C14_Witness ==
    /\ vpc = "await"
    /\ rounds >= 2
    /\ Len(toProver) = 1
    /\ toVerifier = <<>>

\* C15: when the Verifier has declared the round with Counter C_V successful,
\* the Prover has accepted the Request with that Counter and C_P = C_V (C_P is
\* set before the success Report is on the line); the verdict is SUCCESSFUL
\* exactly when the Report's flag is 1, whatever its proof bytes.
C15_AgreementOnSuccess ==
    /\ (vpc = "loop" /\ rounds > 0 /\ verdict = "SUCCESSFUL") =>
          (LastSucceeded /\ last.Counter = C_V /\ C_P = C_V)
    /\ \A i \in DOMAIN toVerifier :
          toVerifier[i].flag = 1 => (last.Counter = C_V /\ C_P = C_V)
    /\ \A f \in {0, 1} : \A p \in ProofInputs :
          (Judge([flag |-> f, proof |-> p]) = "SUCCESSFUL") <=> (f = 1)

\* The Verifier has declared a round successful.
C15_Witness ==
    /\ vpc = "loop"
    /\ rounds > 0
    /\ verdict = "SUCCESSFUL"
    /\ C_P = C_V
    /\ C_V # Zero32

\* C16: as long as C_V has been incremented fewer than 2^32 times, C_P <= C_V.
C16_ProverNotAhead == (roundNo[1] < Half) => Leq32(C_P, C_V)

\* After two rounds the Prover has caught up with the Verifier.
C16_Witness ==
    /\ roundNo[1] < Half
    /\ rounds >= 2
    /\ LastSucceeded
    /\ C_P = C_V

\* C17: in a successful round the proof bytes of the Report are the proof bytes
\* of the Request that was accepted.
C17_ProofEchoed == LastSucceeded => last.sent[1].proof = last.proof

\* A Request was accepted and its proof came back in the Report.
C17_Witness ==
    /\ LastSucceeded
    /\ last.proof # Zeros
    /\ last.sent[1].proof = last.proof
    /\ last.sent[1].flag = 1

\* The bytes the reader of the message on the line has taken so far.
WireTaken ==
    Len(wire.cur) + (IF wire.fields = <<>> THEN 0
                     ELSE IF wire.kind = "request"
                          THEN Len(wire.fields[1])
                               + (IF Len(wire.fields) > 1 THEN Len(wire.fields[2]) ELSE 0)
                               + (IF Len(wire.fields) > 2 THEN Len(wire.fields[3]) ELSE 0)
                               + (IF Len(wire.fields) > 3 THEN Len(wire.fields[4]) ELSE 0)
                          ELSE Len(wire.fields[1]))

\* C11: wire round-trip.  A Request is 100 bytes (counter 4, digest 32, nonce
\* 32, proof 32) and a Report 33 bytes (flag 1, proof 32); the reader uses a
\* message only once it has taken every byte of it, each field with the size
\* it was written with, and what it decodes from an unaltered message equals
\* what the writer encoded.
C11_WireRoundTrip ==
    /\ (wire.kind = "request") => (Len(wire.line) + WireTaken = 100)
    /\ (wire.kind = "report") => (Len(wire.line) + WireTaken = 33)
    /\ (wire.pc = "done") =>
          /\ wire.line = <<>>
          /\ [i \in 1..Len(wire.fields) |-> Len(wire.fields[i])] = Layout(wire.kind)
          /\ (wire.flipped = 0) => (wire.got = wire.sent)

\* A Request with a counter of four non-zero bytes arrived in pieces and was
\* decoded to what was sent.
C11_Witness ==
    /\ wire.pc = "done"
    /\ wire.kind = "request"
    /\ wire.partial
    /\ wire.flipped = 0
    /\ wire.sent.Counter = Late
    /\ wire.got = wire.sent

\* A Report arrived in pieces and was decoded to what was sent.
C11_WitnessReport ==
    /\ wire.pc = "done"
    /\ wire.kind = "report"
    /\ wire.partial
    /\ wire.sent.flag = 1
    /\ wire.got = wire.sent

\* C12: constant-time verification.  Whenever the received proof differs from
\* the expected one, the comparison answers "different" after going through
\* all 32 bytes, whichever byte differs.
C12_ConstantTime ==
    (wire.pc = "done" /\ wire.kind = "request" /\ wire.flipped # 0) =>
        /\ ~wire.cmp.equal
        /\ wire.cmp.steps = OUTPUT_SIZE

\* C12, the half that holds: a proof that differs in any one byte is never
\* found equal, and an unaltered one always is.
C12_DifferingProofRejected ==
    (wire.pc = "done" /\ wire.kind = "request") =>
        (wire.cmp.equal <=> wire.flipped = 0)
====
